---- MODULE Spec2Model ----
(***************************************************************************)
(* Model of the model cache and session lifecycle of web-ai:               *)
(*   src/src/session.ts            Session, clearCache, SessionParams      *)
(*   src/src/sessionController.ts  createSession                           *)
(*                                                                         *)
(* The persistent store (localforage), the network (fetch), the            *)
(* decompressor (pako) and the numerical runtime (onnxruntime-web) are     *)
(* external: each of their calls is one step whose outcome (value or       *)
(* rejection) is chosen nondeterministically.  Every `await` of the source *)
(* is a point where another caller's step may interleave.                  *)
(***************************************************************************)
EXTENDS Integers, Sequences, FiniteSets, TLC

\* ---------------------------------------------------------------- bounds
\* Number of caller slots (async calls of init/validateCache in flight).
NumCallers == 2
\* Number of Session objects alive at once.
NumSessions == 1

Callers == 1..NumCallers
Sessions == 1..NumSessions

\* ----------------------------------------------------- program constants
\* SessionParams.cacheSizeMB.  The source ships 500; the field is a caller
\* override, and the model runs with the 10 MB budget of the spec's scenario.
cacheSizeMB == 10

\* Session.constructor: this.cacheSize = SessionParams.cacheSizeMB * 1e6
cacheSize == cacheSizeMB * 1000000

\* The value of a call that returns nothing, and of an absent argument.
NULL == <<>>

\* Session.ortSession before any init has assigned it.
undefined == [model |-> <<>>]

\* ------------------------------------------------------------ the network
\* A model path is the sequence of its "."-separated segments.
PathA == <<"a", "onnx">>
PathB == <<"b", "onnx">>
PathC == <<"c", "onnx">>
PathZ == <<"z", "onnx", "gz">>
PathBig == <<"big", "onnx", "gz">>
Paths == {PathA, PathB, PathC, PathZ, PathBig}

\* Bytes on the wire for a path (the body of the HTTP response).
WireLen(p) ==
  CASE p = PathZ -> 20
    [] p = PathBig -> 3000000
    [] OTHER -> 4000000

\* Bytes of the decompressed payload of a ".gz" artifact.
PlainLen(p) ==
  CASE p = PathZ -> 0
    [] p = PathBig -> 12000000
    [] OTHER -> WireLen(p)

\* modelPath.split(".").pop()
extension(modelPath) == modelPath[Len(modelPath)]

\* fetch(modelPath).then((resp) => resp.arrayBuffer()): the body as served;
\* a ".gz" path is served compressed.
arrayBuffer(p) ==
  [src |-> p, byteLength |-> WireLen(p), gz |-> extension(p) = "gz"]

\* pako.inflate(buf): the decompressed payload.
inflate(buf) ==
  [src |-> buf.src, byteLength |-> PlainLen(buf.src), gz |-> FALSE]

\* new ArrayBuffer(0)
EmptyBuffer == [src |-> <<>>, byteLength |-> 0, gz |-> FALSE]

\* What a successful fetchData holds in modelData before the size check.
Fetched(p) ==
  IF extension(p) = "gz" THEN inflate(arrayBuffer(p)) ELSE arrayBuffer(p)

\* ort.InferenceSession.create(modelData, ...): the runnable handle.
InferenceSession(modelData) == [model |-> modelData.src]

\* handle.run(input), handle.inputNames, handle.outputNames
Inputs == {"x"}
HandleRun(h, input) == <<"y", h.model, input>>
HandleInputNames(h) == <<"in", h.model>>
HandleOutputNames(h) == <<"out", h.model>>

\* Error("the session is not initialized. ...")
NotInitialized == "the session is not initialized"

\* ------------------------------------------------------------------ state
VARIABLES
  store,          \* localforage: key -> stored buffer
  hasDocument,    \* typeof document !== "undefined" in the host: "yes" or
                  \*   "no", "unread" until createSession first tests it
  mode,           \* per Session object: "none" | "local" | "proxied"
  ortSession,     \* Session.ortSession: undefined or the runnable handle
  everInit,       \* history: an init on this session has resolved
  op,             \* per caller: the method in flight
  factory,        \* per caller: the init was started by createSession
  proxyArg,       \* per caller: the proxy argument of that createSession
  pc,             \* per caller: the await the call is suspended at
  self,           \* per caller: the Session the method was called on
  modelPath,      \* init/fetchData argument
  modelData,      \* init/fetchData/validateCache modelData
  cacheKeys,      \* validateCache: result of localforage.keys()
  idx,            \* validateCache: position of the for-of loop
  cacheSizeSum,   \* validateCache: local cacheSize
  cacheItemSizes, \* validateCache: Map key -> size, in insertion order
  newCacheSize,   \* validateCache: local newCacheSize
  input,          \* run argument
  handle,         \* run: this.ortSession read before the await
  ret,            \* per caller: how the call settled
  fetches,        \* history: fetch() calls issued by this call
  lookup,         \* history: what init's getItem settled with:
                  \*   "error", "null" or "data"
  evicted,        \* history: keys this call removed, in order
  caught,         \* history: validateCache's catch block ran
  setOk,          \* history: this call's setItem stored the artifact
  wasInit,        \* history: everInit[self] when run/names was called
  seen,           \* history: what the call found on its session when it
                  \*   was made: an init "inflight", one "rejected" or
                  \*   "resolved" and not yet returned, or "none"
  stale           \* history: since this call's keys(), the store has been
                  \*   written by somebody else

storeVars == <<store, hasDocument>>
sessVars == <<mode, ortSession, everInit>>
valVars == <<cacheKeys, idx, cacheSizeSum, cacheItemSizes, newCacheSize>>
histVars == <<fetches, lookup, evicted, caught, setOk, wasInit, seen, stale>>
callVars ==
  <<op, factory, proxyArg, pc, self, modelPath, modelData, input, handle, ret>>
vars == <<storeVars, sessVars, valVars, histVars, callVars>>

NoRet == [err |-> "pending", val |-> NULL]
Ok(v) == [err |-> "ok", val |-> v]
Err(e) == [err |-> e, val |-> NULL]

EmptyStore == [k \in {} |-> EmptyBuffer]

Init ==
  /\ store = EmptyStore
  /\ hasDocument = "unread"
  /\ mode = [s \in Sessions |-> "none"]
  /\ ortSession = [s \in Sessions |-> undefined]
  /\ everInit = [s \in Sessions |-> FALSE]
  /\ op = [c \in Callers |-> "none"]
  /\ factory = [c \in Callers |-> FALSE]
  /\ proxyArg = [c \in Callers |-> FALSE]
  /\ pc = [c \in Callers |-> "idle"]
  /\ self = [c \in Callers |-> 1]
  /\ modelPath = [c \in Callers |-> <<>>]
  /\ modelData = [c \in Callers |-> EmptyBuffer]
  /\ cacheKeys = [c \in Callers |-> <<>>]
  /\ idx = [c \in Callers |-> 0]
  /\ cacheSizeSum = [c \in Callers |-> 0]
  /\ cacheItemSizes = [c \in Callers |-> <<>>]
  /\ newCacheSize = [c \in Callers |-> 0]
  /\ input = [c \in Callers |-> NULL]
  /\ handle = [c \in Callers |-> undefined]
  /\ ret = [c \in Callers |-> NoRet]
  /\ fetches = [c \in Callers |-> 0]
  /\ lookup = [c \in Callers |-> "none"]
  /\ evicted = [c \in Callers |-> <<>>]
  /\ caught = [c \in Callers |-> FALSE]
  /\ setOk = [c \in Callers |-> FALSE]
  /\ wasInit = [c \in Callers |-> FALSE]
  /\ seen = [c \in Callers |-> "none"]
  /\ stale = [c \in Callers |-> FALSE]

\* ---------------------------------------------------------------- helpers
RECURSIVE SumSizes(_)
\* Sum of the byte sizes of a set of stored buffers' keys.
SumSizes(ks) ==
  IF ks = {} THEN 0
  ELSE LET k == CHOOSE x \in ks : TRUE
       IN store[k].byteLength + SumSizes(ks \ {k})

\* Total bytes held by the store.
StoreBytes == SumSizes(DOMAIN store)

\* Every order in which keys() may enumerate a key set.
Enumerations(ks) ==
  {q \in [1..Cardinality(ks) -> ks] : \A i, j \in DOMAIN q : i # j => q[i] # q[j]}

\* store after setItem(k, v)
Put(k, v) == [x \in DOMAIN store \cup {k} |-> IF x = k THEN v ELSE store[x]]

\* store after removeItem(k)
Remove(k) == [x \in DOMAIN store \ {k} |-> store[x]]

\* A session the calling code holds a reference to: constructed, and not
\* still inside the createSession call that is building it.
Held(s) ==
  /\ mode[s] # "none"
  /\ \A d \in Callers : ~(pc[d] # "idle" /\ factory[d] /\ self[d] = s)

InitLike(c) == op[c] \in {"init", "validateCache"}

\* The store is written by caller w (0: by clearCache): every other call
\* that has read keys() and has not yet finished its own writes now works
\* on an outdated view.
Outdated(w) ==
  [c \in Callers |->
     stale[c] \/ (c # w /\ pc[c] \in {"sizes", "evict", "setItem"})]

\* What a call made now on session s finds of the other calls on s.
Seen(s) ==
  IF \E d \in Callers : op[d] = "init" /\ self[d] = s /\ pc[d] = "done"
                          /\ ret[d].err # "ok"
  THEN "rejected"
  ELSE IF \E d \in Callers : op[d] = "init" /\ self[d] = s
                               /\ pc[d] \notin {"idle", "done"}
  THEN "inflight"
  ELSE IF \E d \in Callers : op[d] = "init" /\ self[d] = s /\ pc[d] = "done"
  THEN "resolved"
  ELSE "none"

\* Calls and Session objects are anonymous: a new call takes the first idle
\* slot, a new Session the first unused one.
FreeSlot(c) == pc[c] = "idle" /\ \A d \in Callers : d < c => pc[d] # "idle"
FreeSession(s) == mode[s] = "none" /\ \A t \in Sessions : t < s => mode[t] # "none"

\* The promise of caller c settles with r.
Settle(c, r) ==
  /\ pc' = [pc EXCEPT ![c] = "done"]
  /\ ret' = [ret EXCEPT ![c] = r]

\* ------------------------------------------------------------ Session.init
\* init(modelPath) up to its first await (localforage.getItem).
BeginInit(c, s, p, byFactory) ==
  /\ FreeSlot(c)
  /\ op' = [op EXCEPT ![c] = "init"]
  /\ factory' = [factory EXCEPT ![c] = byFactory]
  /\ self' = [self EXCEPT ![c] = s]
  /\ modelPath' = [modelPath EXCEPT ![c] = p]
  /\ modelData' = [modelData EXCEPT ![c] = EmptyBuffer]
  /\ pc' = [pc EXCEPT ![c] = "getItem"]
  /\ seen' = [seen EXCEPT ![c] = Seen(s)]
  /\ UNCHANGED <<fetches, lookup, evicted, caught, setOk, wasInit, stale>>
  /\ UNCHANGED <<input, handle, ret, valVars, store>>

\* A caller invokes init on a session it holds.
InitCall(c, s, p) ==
  /\ Held(s)
  /\ BeginInit(c, s, p, FALSE)
  /\ UNCHANGED <<proxyArg, hasDocument, sessVars>>

\* What localforage.getItem(key) resolves with.
Resolved(key) == IF key \in DOMAIN store THEN "data" ELSE "null"

\* Mutant: a cached buffer of length zero is taken for a miss.
cachedDataIsNull_Empty(key) ==
  key \in DOMAIN store => store[key].byteLength = 0

\* Mutant: a cached value is taken for a miss.
cachedDataIsNull_Always(key) == TRUE

\* cachedData !== null is false: nothing is stored under key.
cachedDataIsNull(key) == key \notin DOMAIN store

\* Mutant: the try block of init covers the fetch but not the lookup.
InTry_FetchOnly(c) == pc[c] = "fetchTry"

\* The call is at an await inside the try block of init.
InTry(c) == pc[c] \in {"getItem", "fetchTry"}

\* An awaited promise of init rejects with e: inside the try block the catch
\* runs, which calls fetchData; anywhere else init itself rejects with e.
Throws(c, e) ==
  IF InTry(c)
  THEN /\ pc' = [pc EXCEPT ![c] = "fetchCatch"]
       /\ UNCHANGED ret
  ELSE Settle(c, Err(e))

\* await localforage.getItem(modelPath) resolves or rejects.
GetItem(c) ==
  /\ pc[c] = "getItem"
  /\ \/ /\ lookup' = [lookup EXCEPT ![c] = "error"]
        /\ Throws(c, "StoreError")
        /\ UNCHANGED modelData
     \/ /\ lookup' = [lookup EXCEPT ![c] = Resolved(modelPath[c])]
        /\ IF cachedDataIsNull(modelPath[c])
           THEN /\ pc' = [pc EXCEPT ![c] = "fetchTry"]
                /\ UNCHANGED <<modelData, ret>>
           ELSE /\ modelData' = [modelData EXCEPT ![c] = store[modelPath[c]]]
                /\ pc' = [pc EXCEPT ![c] = "create"]
                /\ UNCHANGED ret
  /\ UNCHANGED <<op, factory, proxyArg, self, modelPath, input, handle>>
  /\ UNCHANGED <<fetches, evicted, caught, setOk, wasInit, seen, stale>>
  /\ UNCHANGED <<storeVars, sessVars, valVars>>

\* Mutant: the size check is made on the bytes as served, before inflate.
TooLarge_Wire(data) == WireLen(data.src) > cacheSize

\* The size check of fetchData on the fetched (and inflated) bytes.
TooLarge(data) == data.byteLength > cacheSize

\* Mutant: the bytes as served are stored before they are inflated.
FetchData_CachesWire(c) ==
  /\ pc[c] \in {"fetchTry", "fetchCatch"}
  /\ fetches' = [fetches EXCEPT ![c] = @ + 1]
  /\ \/ /\ Throws(c, "NetworkError")
        /\ UNCHANGED <<modelData, storeVars>>
     \/ /\ extension(modelPath[c]) = "gz"
        /\ Throws(c, "DecodeError")
        /\ store' = Put(modelPath[c], arrayBuffer(modelPath[c]))
        /\ UNCHANGED <<modelData, hasDocument>>
     \/ /\ modelData' = [modelData EXCEPT ![c] = Fetched(modelPath[c])]
        /\ pc' = [pc EXCEPT ![c] =
                    IF TooLarge(Fetched(modelPath[c])) THEN "create" ELSE "keys"]
        /\ UNCHANGED <<ret, storeVars>>
  /\ UNCHANGED <<op, factory, proxyArg, self, modelPath, input, handle>>
  /\ UNCHANGED <<lookup, evicted, caught, setOk, wasInit, seen, stale>>
  /\ UNCHANGED <<sessVars, valVars>>

\* fetchData(modelPath) up to the size check: fetch, arrayBuffer, inflate.
\* A rejection inside init's try block is caught and fetchData is called
\* again; a rejection in the catch block rejects init.
FetchData(c) ==
  /\ pc[c] \in {"fetchTry", "fetchCatch"}
  /\ fetches' = [fetches EXCEPT ![c] = @ + 1]
  /\ \/ /\ Throws(c, "NetworkError")
        /\ UNCHANGED modelData
     \/ /\ extension(modelPath[c]) = "gz"
        /\ Throws(c, "DecodeError")
        /\ UNCHANGED modelData
     \/ /\ modelData' = [modelData EXCEPT ![c] = Fetched(modelPath[c])]
        /\ pc' = [pc EXCEPT ![c] =
                    IF TooLarge(Fetched(modelPath[c])) THEN "create" ELSE "keys"]
        /\ UNCHANGED ret
  /\ UNCHANGED <<op, factory, proxyArg, self, modelPath, input, handle>>
  /\ UNCHANGED <<lookup, evicted, caught, setOk, wasInit, seen, stale>>
  /\ UNCHANGED <<storeVars, sessVars, valVars>>

\* --------------------------------------------------- Session.validateCache
\* Mutant: validateCache has no catch block.
ValidateReturns_Rethrows(c, threw) ==
  /\ caught' = [caught EXCEPT ![c] = threw]
  /\ cacheKeys' = [cacheKeys EXCEPT ![c] = <<>>]
  /\ idx' = [idx EXCEPT ![c] = 0]
  /\ cacheSizeSum' = [cacheSizeSum EXCEPT ![c] = 0]
  /\ cacheItemSizes' = [cacheItemSizes EXCEPT ![c] = <<>>]
  /\ newCacheSize' = [newCacheSize EXCEPT ![c] = 0]
  /\ IF threw
     THEN Settle(c, Err("StoreError"))
     ELSE IF op[c] = "init"
     THEN /\ pc' = [pc EXCEPT ![c] = "setItem"]
          /\ UNCHANGED ret
     ELSE Settle(c, Ok(NULL))

\* validateCache returns (threw: through its catch block).  Its locals go
\* out of scope; fetchData goes on to setItem, a direct caller gets void.
ValidateReturns(c, threw) ==
  /\ caught' = [caught EXCEPT ![c] = threw]
  /\ cacheKeys' = [cacheKeys EXCEPT ![c] = <<>>]
  /\ idx' = [idx EXCEPT ![c] = 0]
  /\ cacheSizeSum' = [cacheSizeSum EXCEPT ![c] = 0]
  /\ cacheItemSizes' = [cacheItemSizes EXCEPT ![c] = <<>>]
  /\ newCacheSize' = [newCacheSize EXCEPT ![c] = 0]
  /\ IF op[c] = "init"
     THEN /\ pc' = [pc EXCEPT ![c] = "setItem"]
          /\ UNCHANGED ret
     ELSE Settle(c, Ok(NULL))

\* Mutant: the loop lets the store grow to twice the budget.
OverBudget_Twice(size) == size > 2 * cacheSize

\* The while condition of validateCache.
OverBudget(size) == size > cacheSize

\* Mutant: the loop compares with the local cacheSize (the bytes counted in
\* the store) instead of this.cacheSize.
WhileLoop_Shadowed(c, keys, i, sum, items, size) ==
  IF ~(size > sum) THEN ValidateReturns(c, FALSE)
  ELSE IF items = <<>> THEN ValidateReturns(c, TRUE)
  ELSE /\ cacheKeys' = [cacheKeys EXCEPT ![c] = keys]
       /\ idx' = [idx EXCEPT ![c] = i]
       /\ cacheSizeSum' = [cacheSizeSum EXCEPT ![c] = sum]
       /\ cacheItemSizes' = [cacheItemSizes EXCEPT ![c] = items]
       /\ newCacheSize' = [newCacheSize EXCEPT ![c] = size]
       /\ pc' = [pc EXCEPT ![c] = "evict"]
       /\ UNCHANGED <<caught, ret>>

\* The while loop is entered with projected size `size` and map `items`:
\* it exits, or goes for the first entry of the map, or finds the map empty
\* (destructuring undefined throws a TypeError, which the catch absorbs).
WhileLoop(c, keys, i, sum, items, size) ==
  IF ~OverBudget(size) THEN ValidateReturns(c, FALSE)
  ELSE IF items = <<>> THEN ValidateReturns(c, TRUE)
  ELSE /\ cacheKeys' = [cacheKeys EXCEPT ![c] = keys]
       /\ idx' = [idx EXCEPT ![c] = i]
       /\ cacheSizeSum' = [cacheSizeSum EXCEPT ![c] = sum]
       /\ cacheItemSizes' = [cacheItemSizes EXCEPT ![c] = items]
       /\ newCacheSize' = [newCacheSize EXCEPT ![c] = size]
       /\ pc' = [pc EXCEPT ![c] = "evict"]
       /\ UNCHANGED <<caught, ret>>

\* Mutant: the projected size leaves out the incoming artifact.
Projected_NoIncoming(sum, data) == sum

\* let newCacheSize = cacheSize + modelData.byteLength
Projected(sum, data) == sum + data.byteLength

\* A caller invokes validateCache(modelData) directly (a public member).
ValidateCall(c, s, p) ==
  /\ FreeSlot(c)
  /\ Held(s)
  /\ op' = [op EXCEPT ![c] = "validateCache"]
  /\ factory' = [factory EXCEPT ![c] = FALSE]
  /\ self' = [self EXCEPT ![c] = s]
  /\ UNCHANGED proxyArg
  /\ modelData' = [modelData EXCEPT ![c] = Fetched(p)]
  /\ pc' = [pc EXCEPT ![c] = "keys"]
  /\ UNCHANGED <<modelPath, input, handle, ret>>
  /\ UNCHANGED <<storeVars, sessVars, valVars, histVars>>

\* await localforage.keys() resolves (in some enumeration order) or rejects.
Keys(c) ==
  /\ pc[c] = "keys"
  /\ \/ ValidateReturns(c, TRUE)
     \/ \E q \in Enumerations(DOMAIN store) :
          IF Len(q) = 0
          THEN WhileLoop(c, q, 1, 0, <<>>, Projected(0, modelData[c]))
          ELSE /\ cacheKeys' = [cacheKeys EXCEPT ![c] = q]
               /\ idx' = [idx EXCEPT ![c] = 1]
               /\ pc' = [pc EXCEPT ![c] = "sizes"]
               /\ UNCHANGED <<cacheSizeSum, cacheItemSizes, newCacheSize>>
               /\ UNCHANGED <<caught, ret>>
  /\ UNCHANGED <<op, factory, proxyArg, self, modelPath, modelData, input, handle>>
  /\ UNCHANGED <<fetches, lookup, evicted, setOk, wasInit, seen, stale>>
  /\ UNCHANGED <<storeVars, sessVars>>

\* One iteration of the for-of loop: await localforage.getItem(key) rejects,
\* resolves null (data.byteLength then throws), or resolves the buffer.
Sizes(c) ==
  /\ pc[c] = "sizes"
  /\ LET key == cacheKeys[c][idx[c]] IN
     \/ ValidateReturns(c, TRUE)
     \/ /\ key \in DOMAIN store
        /\ LET sum == cacheSizeSum[c] + store[key].byteLength
               items == Append(cacheItemSizes[c], <<key, store[key].byteLength>>)
           IN IF idx[c] = Len(cacheKeys[c])
              THEN WhileLoop(c, cacheKeys[c], idx[c] + 1, sum, items,
                             Projected(sum, modelData[c]))
              ELSE /\ idx' = [idx EXCEPT ![c] = @ + 1]
                   /\ cacheSizeSum' = [cacheSizeSum EXCEPT ![c] = sum]
                   /\ cacheItemSizes' = [cacheItemSizes EXCEPT ![c] = items]
                   /\ UNCHANGED <<cacheKeys, newCacheSize, pc, caught, ret>>
  /\ UNCHANGED <<op, factory, proxyArg, self, modelPath, modelData, input, handle>>
  /\ UNCHANGED <<fetches, lookup, evicted, setOk, wasInit, seen, stale>>
  /\ UNCHANGED <<storeVars, sessVars>>

\* Mutant: the loop spares the first entry while there is another.
Oldest_Second(items) == items[IF Len(items) > 1 THEN 2 ELSE 1]

\* Mutant: the loop takes the entry inserted last.
Oldest_Last(items) == items[Len(items)]

\* cacheItemSizes.entries().next().value: the entry inserted first.
Oldest(items) == items[1]

\* One iteration of the while loop: take the first entry of the map, delete
\* it from the map, subtract its size, await localforage.removeItem(key).
Evict(c) ==
  /\ pc[c] = "evict"
  /\ LET key == Oldest(cacheItemSizes[c])[1]
         size == Oldest(cacheItemSizes[c])[2]
         items == SelectSeq(cacheItemSizes[c], LAMBDA e : e[1] # key)
         newSize == newCacheSize[c] - size
     IN \/ /\ ValidateReturns(c, TRUE)
           /\ UNCHANGED <<store, evicted, stale>>
        \/ /\ store' = Remove(key)
           /\ stale' = Outdated(c)
           /\ evicted' = [evicted EXCEPT ![c] = Append(@, key)]
           /\ WhileLoop(c, cacheKeys[c], idx[c], cacheSizeSum[c], items, newSize)
  /\ UNCHANGED <<op, factory, proxyArg, self, modelPath, modelData, input, handle>>
  /\ UNCHANGED <<fetches, lookup, setOk, wasInit, seen>>
  /\ UNCHANGED <<hasDocument, sessVars>>

\* ------------------------------------------- fetchData, after validateCache
\* Mutant: setItem is awaited, so its rejection rejects fetchData and init.
SetItem_Awaited(c) ==
  /\ pc[c] = "setItem"
  /\ \/ /\ store' = Put(modelPath[c], modelData[c])
        /\ stale' = Outdated(c)
        /\ setOk' = [setOk EXCEPT ![c] = TRUE]
        /\ pc' = [pc EXCEPT ![c] = "create"]
        /\ UNCHANGED ret
     \/ /\ Settle(c, Err("StoreError"))
        /\ UNCHANGED <<store, setOk, stale>>
  /\ UNCHANGED <<op, factory, proxyArg, self, modelPath, modelData, input, handle>>
  /\ UNCHANGED <<fetches, lookup, evicted, caught, wasInit, seen>>
  /\ UNCHANGED <<hasDocument, sessVars, valVars>>

\* localforage.setItem(modelPath, modelData), not awaited: the write lands
\* or is rejected, and a rejection reaches nobody.
SetItem(c) ==
  /\ pc[c] = "setItem"
  /\ \/ /\ store' = Put(modelPath[c], modelData[c])
        /\ stale' = Outdated(c)
        /\ setOk' = [setOk EXCEPT ![c] = TRUE]
     \/ UNCHANGED <<store, setOk, stale>>
  /\ pc' = [pc EXCEPT ![c] = "create"]
  /\ UNCHANGED <<op, factory, proxyArg, self, modelPath, modelData, input, handle, ret>>
  /\ UNCHANGED <<fetches, lookup, evicted, caught, wasInit, seen>>
  /\ UNCHANGED <<hasDocument, sessVars, valVars>>

\* Mutant: a rejected construction drops the handle the session had.
CreateRejects_Clears(c) ==
  /\ Settle(c, Err("CreateError"))
  /\ ortSession' = [ortSession EXCEPT ![self[c]] = undefined]
  /\ UNCHANGED everInit

\* await ort.InferenceSession.create(...) rejects: init rejects before the
\* assignment to this.ortSession.
CreateRejects(c) ==
  /\ Settle(c, Err("CreateError"))
  /\ UNCHANGED <<ortSession, everInit>>

\* Mutant: init keeps the handle the session already has.
CreateResolves_Once(c) ==
  /\ ortSession' = [ortSession EXCEPT ![self[c]] =
                      IF @ = undefined THEN InferenceSession(modelData[c]) ELSE @]
  /\ everInit' = [everInit EXCEPT ![self[c]] = TRUE]
  /\ Settle(c, Ok(NULL))

\* await ort.InferenceSession.create(...) resolves: this.ortSession = session
\* and init resolves.
CreateResolves(c) ==
  /\ ortSession' = [ortSession EXCEPT ![self[c]] = InferenceSession(modelData[c])]
  /\ everInit' = [everInit EXCEPT ![self[c]] = TRUE]
  /\ Settle(c, Ok(NULL))

\* await ort.InferenceSession.create(modelData, ...) rejects, or resolves
\* and this.ortSession = session.
Create(c) ==
  /\ pc[c] = "create"
  /\ \/ CreateRejects(c)
     \/ CreateResolves(c)
  /\ UNCHANGED <<op, factory, proxyArg, self, modelPath, modelData, input, handle>>
  /\ UNCHANGED <<mode, storeVars, valVars, histVars>>

\* ---------------------------------------------- run, inputNames, outputNames
\* Mutant: the guard never fires.
Uninitialized_Never(s) == FALSE

\* The guard of run, inputNames and outputNames: !this.ortSession
Uninitialized(s) == ortSession[s] = undefined

\* A names getter: the guard, then the handle's names (synchronous).
NamesCall(c, s, method, names) ==
  /\ FreeSlot(c)
  /\ Held(s)
  /\ op' = [op EXCEPT ![c] = method]
  /\ factory' = [factory EXCEPT ![c] = FALSE]
  /\ self' = [self EXCEPT ![c] = s]
  /\ UNCHANGED proxyArg
  /\ wasInit' = [wasInit EXCEPT ![c] = everInit[s]]
  /\ seen' = [seen EXCEPT ![c] = Seen(s)]
  /\ handle' = [handle EXCEPT ![c] = ortSession[s]]
  /\ IF Uninitialized(s)
     THEN Settle(c, Err(NotInitialized))
     ELSE Settle(c, Ok(names))
  /\ UNCHANGED <<modelPath, modelData, input>>
  /\ UNCHANGED <<fetches, lookup, evicted, caught, setOk, stale>>
  /\ UNCHANGED <<storeVars, sessVars, valVars>>

InputNames(c, s) ==
  NamesCall(c, s, "inputNames",
            IF ortSession[s] = undefined THEN NULL ELSE HandleInputNames(ortSession[s]))

OutputNames(c, s) ==
  NamesCall(c, s, "outputNames",
            IF ortSession[s] = undefined THEN NULL ELSE HandleOutputNames(ortSession[s]))

\* run(input) up to its await: the guard throws, or the handle's run starts.
Run(c, s, in) ==
  /\ FreeSlot(c)
  /\ Held(s)
  /\ op' = [op EXCEPT ![c] = "run"]
  /\ factory' = [factory EXCEPT ![c] = FALSE]
  /\ self' = [self EXCEPT ![c] = s]
  /\ UNCHANGED proxyArg
  /\ input' = [input EXCEPT ![c] = in]
  /\ wasInit' = [wasInit EXCEPT ![c] = everInit[s]]
  /\ seen' = [seen EXCEPT ![c] = Seen(s)]
  /\ IF Uninitialized(s)
     THEN /\ Settle(c, Err(NotInitialized))
          /\ UNCHANGED handle
     ELSE /\ handle' = [handle EXCEPT ![c] = ortSession[s]]
          /\ pc' = [pc EXCEPT ![c] = "running"]
          /\ UNCHANGED ret
  /\ UNCHANGED <<modelPath, modelData>>
  /\ UNCHANGED <<fetches, lookup, evicted, caught, setOk, stale>>
  /\ UNCHANGED <<storeVars, sessVars, valVars>>

\* await this.ortSession.run(input) resolves with the outputs or rejects.
RunReturns(c) ==
  /\ pc[c] = "running"
  /\ \/ Settle(c, Ok(HandleRun(handle[c], input[c])))
     \/ Settle(c, Err("RunError"))
  /\ UNCHANGED <<op, factory, proxyArg, self, modelPath, modelData, input, handle>>
  /\ UNCHANGED <<storeVars, sessVars, valVars, histVars>>

\* ------------------------------------------------------------ construction
\* new Session() in the calling code.
NewSession(s) ==
  /\ FreeSession(s)
  /\ mode' = [mode EXCEPT ![s] = "local"]
  /\ UNCHANGED <<ortSession, everInit>>
  /\ UNCHANGED <<storeVars, valVars, histVars, callVars>>

\* Mutant: the worker branch is taken whenever proxy is asked for.
ModeOf_IgnoresDocument(proxy, document) ==
  IF proxy THEN "proxied" ELSE "local"

\* The branch createSession takes: proxy && typeof document !== "undefined"
ModeOf(proxy, document) ==
  IF proxy /\ document = "yes" THEN "proxied" ELSE "local"

\* createSession(modelPath, proxy) up to the first await of init: a Session
\* is constructed, in a worker or in place, and init(modelPath) is called.
createSession(c, s, p, proxy) ==
  /\ FreeSession(s)
  /\ \E document \in {"yes", "no"} :
       /\ hasDocument \in {"unread", document}
       /\ hasDocument' = IF proxy THEN document ELSE hasDocument
       /\ mode' = [mode EXCEPT ![s] = ModeOf(proxy, document)]
  /\ UNCHANGED <<ortSession, everInit>>
  /\ proxyArg' = [proxyArg EXCEPT ![c] = proxy]
  /\ BeginInit(c, s, p, TRUE)

\* The caller's continuation takes the settled result; the call is over.
\* A createSession whose init rejected returns no session: the Session it
\* built is unreachable.
Return(c) ==
  /\ pc[c] = "done"
  /\ pc' = [pc EXCEPT ![c] = "idle"]
  /\ op' = [op EXCEPT ![c] = "none"]
  /\ factory' = [factory EXCEPT ![c] = FALSE]
  /\ proxyArg' = [proxyArg EXCEPT ![c] = FALSE]
  /\ self' = [self EXCEPT ![c] = 1]
  /\ modelPath' = [modelPath EXCEPT ![c] = <<>>]
  /\ modelData' = [modelData EXCEPT ![c] = EmptyBuffer]
  /\ input' = [input EXCEPT ![c] = NULL]
  /\ handle' = [handle EXCEPT ![c] = undefined]
  /\ ret' = [ret EXCEPT ![c] = NoRet]
  /\ fetches' = [fetches EXCEPT ![c] = 0]
  /\ lookup' = [lookup EXCEPT ![c] = "none"]
  /\ evicted' = [evicted EXCEPT ![c] = <<>>]
  /\ caught' = [caught EXCEPT ![c] = FALSE]
  /\ setOk' = [setOk EXCEPT ![c] = FALSE]
  /\ wasInit' = [wasInit EXCEPT ![c] = FALSE]
  /\ seen' = [seen EXCEPT ![c] = "none"]
  /\ stale' = [stale EXCEPT ![c] = FALSE]
  /\ IF factory[c] /\ ret[c].err # "ok"
     THEN /\ mode' = [mode EXCEPT ![self[c]] = "none"]
          /\ ortSession' = [ortSession EXCEPT ![self[c]] = undefined]
          /\ everInit' = [everInit EXCEPT ![self[c]] = FALSE]
     ELSE UNCHANGED sessVars
  /\ UNCHANGED <<storeVars, valVars>>

\* clearCache(): localforage.clear()
clearCache ==
  /\ store' = EmptyStore
  /\ stale' = Outdated(0)
  /\ UNCHANGED <<fetches, lookup, evicted, caught, setOk, wasInit, seen>>
  /\ UNCHANGED <<hasDocument, sessVars, valVars, callVars>>

\* ------------------------------------------------------------ specification
\* No other init or validateCache call is in flight.
Alone(c) == \A d \in Callers \ {c} : ~(pc[d] # "idle" /\ InitLike(d))

\* A call of init, validateCache or createSession moves on, or returns.
Step(c) ==
  \/ GetItem(c)
  \/ FetchData(c)
  \/ Keys(c)
  \/ Sizes(c)
  \/ Evict(c)
  \/ SetItem(c)
  \/ Create(c)
  \/ Return(c)

\* The calling code uses a session.
Use(c) ==
  \/ \E s \in Sessions : InputNames(c, s)
  \/ \E s \in Sessions : OutputNames(c, s)
  \/ \E s \in Sessions, in \in Inputs : Run(c, s, in)

\* The calling code starts init, validateCache or createSession.
Start(c, s, p) ==
  \/ InitCall(c, s, p)
  \/ ValidateCall(c, s, p)
  \/ \E proxy \in BOOLEAN : createSession(c, s, p, proxy)

\* The session lifecycle under every interleaving of the callers: init,
\* validateCache and createSession calls overlap each other and the run,
\* inputNames and outputNames calls.
LifecyclePaths == {PathA, PathBig}

Next ==
  \/ \E c \in Callers, s \in Sessions, p \in LifecyclePaths : Start(c, s, p)
  \/ \E c \in Callers : Step(c)
  \/ \E c \in Callers : Use(c)
  \/ \E c \in Callers : RunReturns(c)
  \/ \E s \in Sessions : NewSession(s)
  \/ clearCache

Spec == Init /\ [][Next]_vars

\* The cache under calls of init, validateCache and createSession made one
\* after another (each starts after the one before has returned), over
\* every path, with clearCache at any moment.
SeqNext ==
  \/ \E c \in Callers, s \in Sessions, p \in Paths : Alone(c) /\ Start(c, s, p)
  \/ \E c \in Callers : Step(c)
  \/ \E s \in Sessions : NewSession(s)
  \/ clearCache

SeqSpec == Init /\ [][SeqNext]_vars

\* The same without clearCache: the store is never cleared.
KeptNext ==
  \/ \E c \in Callers, s \in Sessions, p \in Paths : Alone(c) /\ Start(c, s, p)
  \/ \E c \in Callers : Step(c)
  \/ \E s \in Sessions : NewSession(s)

KeptSpec == Init /\ [][KeptNext]_vars

\* SeqSpec with every store operation validateCache awaits settling: the
\* continuation of a settled promise is run by the event loop.
FairSeqSpec ==
  SeqSpec /\ \A c \in Callers : WF_vars(Keys(c) \/ Sizes(c) \/ Evict(c))

\* The calling code resolves A, then B, then C on an empty store, one after
\* another: each is asked for while the store holds exactly the ones before
\* it, and the store is never cleared.
ScenarioNext ==
  \/ \E c \in Callers, s \in Sessions :
        Alone(c) /\ DOMAIN store = {} /\ InitCall(c, s, PathA)
  \/ \E c \in Callers, s \in Sessions :
        Alone(c) /\ DOMAIN store = {PathA} /\ InitCall(c, s, PathB)
  \/ \E c \in Callers, s \in Sessions :
        Alone(c) /\ DOMAIN store = {PathA, PathB} /\ InitCall(c, s, PathC)
  \/ \E c \in Callers : Step(c)
  \/ \E s \in Sessions : NewSession(s)

ScenarioSpec == Init /\ [][ScenarioNext]_vars

\* The calling code resolves A on an empty store and then, with A stored,
\* resolves other artifacts by init calls that overlap: each path not yet
\* stored is asked for by at most one call at a time.
RacePaths == {PathB, PathC}

RaceStart(c, s, p) ==
  /\ PathA \in DOMAIN store
  /\ p \notin DOMAIN store
  /\ \A d \in Callers : ~(pc[d] # "idle" /\ modelPath[d] = p)
  /\ InitCall(c, s, p)

RaceNext ==
  \/ \E c \in Callers, s \in Sessions :
        Alone(c) /\ DOMAIN store = {} /\ InitCall(c, s, PathA)
  \/ \E c \in Callers, s \in Sessions, p \in RacePaths : RaceStart(c, s, p)
  \/ \E c \in Callers : Step(c)
  \/ \E s \in Sessions : NewSession(s)

RaceSpec == Init /\ [][RaceNext]_vars

\* ================================================================== claims
Range(q) == {q[i] : i \in DOMAIN q}

\* An init call that has left fetchData behind with the artifact stored.
Inserted(c) == op[c] = "init" /\ pc[c] \in {"create", "done"} /\ setOk[c]

\* C1 as stated: after any init on a cache miss has run validateCache and
\* stored its artifact (of a size within the budget), the store holds at most
\* cacheSize bytes.
C1_AsStated ==
  \A c \in Callers :
    (Inserted(c) /\ lookup[c] = "null" /\ modelData[c].byteLength <= cacheSize)
      => StoreBytes <= cacheSize

\* C1 (amended): in calls made one after another, after an init on a cache
\* miss has run validateCache without its catch block running (no keys,
\* getItem or removeItem failed) and stored its artifact (of a size within
\* the budget), the store holds at most cacheSize bytes.
C1_BudgetInvariant ==
  \A c \in Callers :
    (Inserted(c) /\ lookup[c] = "null" /\ modelData[c].byteLength <= cacheSize
       /\ ~caught[c])
      => StoreBytes <= cacheSize

\* An insert that needed an eviction to stay within the budget.
C1_Witness ==
  \E c \in Callers :
    /\ Inserted(c) /\ lookup[c] = "null" /\ ~caught[c]
    /\ Len(evicted[c]) >= 1
    /\ Cardinality(DOMAIN store) >= 2

\* An init on a session whose last resolved init was for the same path; the
\* call has not yet reached the end of its own session construction.
Second(c) ==
  /\ op[c] = "init" /\ pc[c] \notin {"idle", "getItem", "done"}
  /\ ortSession[self[c]] = InferenceSession(Fetched(modelPath[c]))

\* C2 as stated: with no clearCache at all, an init for the path the
\* session's last resolved init was for issues no fetch.
C2_AsStated ==
  \A c \in Callers : Second(c) => fetches[c] = 0

\* C2 (amended): with no clearCache at all, an init for the path the
\* session's last resolved init was for issues no fetch, provided the store
\* still holds the path when this init looks it up (the first call stored
\* it: its size was within the budget and its setItem landed, and it has
\* not been evicted) and the lookup does not fail.
C2_HitShortCircuits ==
  \A c \in Callers :
    (Second(c) /\ lookup[c] = "data") => (fetches[c] = 0 /\ pc[c] = "create")

\* A second init for a path is going from the cache to session construction.
C2_Witness ==
  \E c \in Callers :
    /\ Second(c) /\ lookup[c] = "data" /\ pc[c] = "create" /\ fetches[c] = 0
    /\ modelData[c] = Fetched(modelPath[c])

\* The artifact init fetched for its path is larger than the budget.
Oversized(c) ==
  /\ op[c] = "init" /\ fetches[c] >= 1
  /\ pc[c] \notin {"fetchTry", "fetchCatch"}
  /\ modelData[c].byteLength > cacheSize

\* C3: an init whose fetched artifact is larger than cacheSize evicts
\* nothing and inserts nothing: the fetchData step that got the artifact
\* leaves the store as it was and goes straight on to session construction
\* with the fetched bytes, and from then on the call has removed no entry,
\* set no entry and can only fail at session construction.
C3_OversizedNeverCached ==
  [][\A c \in Callers :
       /\ Oversized(c) =>
            /\ evicted[c] = <<>> /\ ~setOk[c] /\ ~caught[c]
            /\ pc[c] \in {"create", "done"}
            /\ modelData[c] = Fetched(modelPath[c])
            /\ ret[c].err \in {"pending", "ok", "CreateError"}
       /\ (~Oversized(c) /\ Oversized(c)') => store' = store
       /\ (Oversized(c) /\ pc'[c] # pc[c]) => store' = store]_vars

\* An init has resolved with an artifact larger than the budget while the
\* store held other entries, none of them the artifact.
C3_Witness ==
  \E c \in Callers :
    /\ Oversized(c) /\ pc[c] = "done" /\ ret[c].err = "ok"
    /\ DOMAIN store # {} /\ modelPath[c] \notin DOMAIN store
    /\ ortSession[self[c]] = InferenceSession(Fetched(modelPath[c]))

UseOps == {"run", "inputNames", "outputNames"}

\* What the handle answers to a settled call.
Delegated(c) ==
  CASE op[c] = "run" -> HandleRun(handle[c], input[c])
    [] op[c] = "inputNames" -> HandleInputNames(handle[c])
    [] op[c] = "outputNames" -> HandleOutputNames(handle[c])

\* C4: a run, inputNames or outputNames call made on a session on which no
\* init had resolved (none started, one in flight, or all rejected) has
\* failed with the not-initialized error without reading a handle; a call
\* made after an init resolved is handed to the handle and does not fail
\* with the not-initialized error.
C4_NotInitializedGuard ==
  \A c \in Callers :
    (op[c] \in UseOps /\ pc[c] # "idle") =>
      IF wasInit[c]
      THEN /\ ret[c].err # NotInitialized
           /\ handle[c] # undefined
           /\ ret[c].err = "ok" => ret[c].val = Delegated(c)
      ELSE /\ pc[c] = "done"
           /\ ret[c] = Err(NotInitialized)
           /\ handle[c] = undefined

\* run, called while an init was in flight on its session, has failed with
\* the not-initialized error.
C4_Witness ==
  \E c \in Callers :
    /\ op[c] = "run" /\ pc[c] = "done" /\ ret[c] = Err(NotInitialized)
    /\ seen[c] = "inflight"

RECURSIVE BytesOf(_)
\* Sum of the sizes of the artifacts of a sequence of keys.
BytesOf(q) ==
  IF q = <<>> THEN 0 ELSE Fetched(Head(q)).byteLength + BytesOf(Tail(q))

\* Caller c is inside validateCache.
Validating(c) == pc[c] \in {"keys", "sizes", "evict"}

\* Caller c takes a step.
Steps(c) ==
  \/ pc'[c] # pc[c]
  \/ idx'[c] # idx[c]
  \/ cacheItemSizes'[c] # cacheItemSizes[c]

\* C5: validateCache, on any store contents and any incoming size, returns
\* without raising (a direct call resolves, fetchData goes on to setItem);
\* each entry it removes is one of the keys it enumerated, not removed
\* before, and is removed only while the bytes it counted plus the incoming
\* size minus the bytes it has removed exceed cacheSize; its other steps
\* leave the store alone; and with its store operations settling it ends.
C5_EvictionTerminates ==
  /\ [][\A c \in Callers :
          /\ (Validating(c) /\ ~Validating(c)') =>
                /\ pc'[c] = IF op[c] = "init" THEN "setItem" ELSE "done"
                /\ ret'[c] = IF op[c] = "init" THEN NoRet ELSE Ok(NULL)
          /\ (Validating(c) /\ evicted'[c] # evicted[c]) =>
                /\ pc[c] = "evict"
                /\ \E k \in Range(cacheKeys[c]) \ Range(evicted[c]) :
                      /\ evicted'[c] = Append(evicted[c], k)
                      /\ store' = Remove(k)
                /\ cacheSizeSum[c] + modelData[c].byteLength
                     - BytesOf(evicted[c]) > cacheSize
          /\ (Validating(c) /\ Steps(c) /\ evicted'[c] = evicted[c]) =>
                store' = store]_vars
  /\ \A c \in Callers : Validating(c) ~> ~Validating(c)

\* A direct validateCache with an incoming size above the budget has emptied
\* a store that held a zero-size entry and has resolved.
C5_Witness ==
  \E c \in Callers :
    /\ op[c] = "validateCache" /\ pc[c] = "done" /\ ret[c] = Ok(NULL)
    /\ modelData[c].byteLength > cacheSize
    /\ Len(evicted[c]) >= 3 /\ PathZ \in Range(evicted[c])
    /\ caught[c] /\ store = EmptyStore

\* C6: an init whose getItem rejected goes on to fetchData; it has no
\* result other than success or a failure of the fetch, of the inflate or
\* of the session construction, and from the end of fetchData on the bytes
\* it carries to the session construction are the ones it fetched for its
\* path, in one fetch.
C6_CorruptCacheRecovery ==
  \A c \in Callers :
    (op[c] = "init" /\ lookup[c] = "error") =>
      /\ pc[c] \in {"fetchCatch", "keys", "sizes", "evict", "setItem",
                     "create", "done"}
      /\ ret[c].err \in {"pending", "ok", "NetworkError", "DecodeError",
                         "CreateError"}
      /\ pc[c] = "fetchCatch" => fetches[c] = 0
      /\ (pc[c] \notin {"fetchCatch", "done"} \/ ret[c].err = "ok") =>
            /\ fetches[c] = 1
            /\ modelData[c] = Fetched(modelPath[c])

\* An init whose getItem rejected has resolved with the fetched artifact.
C6_Witness ==
  \E c \in Callers :
    /\ op[c] = "init" /\ lookup[c] = "error"
    /\ pc[c] = "done" /\ ret[c] = Ok(NULL)
    /\ fetches[c] = 1 /\ modelData[c] = Fetched(modelPath[c])
    /\ everInit[self[c]]

\* C7 as stated: one init call issues at most one fetch, and after a fetch
\* (or inflate) that failed the call has rejected with that failure.
C7_AsStated ==
  \A c \in Callers :
    op[c] = "init" =>
      /\ fetches[c] <= 1
      /\ (fetches[c] = 1 /\ modelData[c] = EmptyBuffer) =>
            (pc[c] = "done" /\ ret[c].err \in {"NetworkError", "DecodeError"})

\* The artifacts of the scenario are 4 MB each and the budget is 10 MB.
ScenarioSizes ==
  /\ cacheSize = 10000000
  /\ \A p \in {PathA, PathB, PathC} : Fetched(p).byteLength = 4000000

\* C8 as stated: after C has been inserted the store holds exactly two
\* entries, one of them C, in at most 10 MB, and the one evicted was the
\* first that keys() enumerated.
C8_AsStated ==
  /\ ScenarioSizes
  /\ \A c \in Callers :
       (Inserted(c) /\ modelPath[c] = PathC /\ lookup[c] # "data") =>
         /\ Cardinality(DOMAIN store) = 2
         /\ PathC \in DOMAIN store
         /\ StoreBytes <= 10000000
         /\ Len(evicted[c]) = 1

\* C8 (amended): after C has been inserted by an init whose validateCache
\* did not run its catch block (no keys, getItem or removeItem failed), the
\* store holds exactly two entries, one of them C, in at most 10 MB; and
\* the single entry that init removes is the first one its keys() call
\* enumerated.
C8_EvictionScenario ==
  /\ [](/\ ScenarioSizes
        /\ \A c \in Callers :
             (Inserted(c) /\ modelPath[c] = PathC /\ lookup[c] # "data"
                /\ ~caught[c]) =>
               /\ Cardinality(DOMAIN store) = 2
               /\ PathC \in DOMAIN store
               /\ StoreBytes <= 10000000
               /\ Len(evicted[c]) = 1)
  /\ [][\A c \in Callers :
          (modelPath[c] = PathC /\ evicted'[c] # evicted[c]
             /\ pc'[c] # "idle") =>
            /\ evicted'[c] = <<cacheKeys[c][1]>>
            /\ store' = Remove(cacheKeys[c][1])]_vars

\* C has been inserted after A and B, one of which was evicted for it.
C8_Witness ==
  \E c \in Callers :
    /\ Inserted(c) /\ modelPath[c] = PathC /\ ~caught[c]
    /\ Len(evicted[c]) = 1 /\ evicted[c][1] \in {PathA, PathB}
    /\ DOMAIN store = {PathA, PathB, PathC} \ {evicted[c][1]}
    /\ StoreBytes = 8000000

\* C10: a session that has a handle keeps having one at every step; the
\* only step that changes a session's handle is the successful end of an
\* init call on it (its session construction resolved), which assigns the
\* handle built from that call's bytes.  So an init that rejects, a run, an
\* inputNames and an outputNames call leave every handle as it was.
C10_SessionStateMonotone ==
  [][/\ \A s \in Sessions :
          ortSession[s] # undefined => ortSession'[s] # undefined
     /\ ortSession' # ortSession =>
          \E c \in Callers :
            /\ op[c] = "init" /\ pc[c] = "create"
            /\ pc'[c] = "done" /\ ret'[c] = Ok(NULL)
            /\ ortSession' = [ortSession EXCEPT
                                ![self[c]] = InferenceSession(modelData[c])]
     /\ \A c \in Callers :
          (op[c] = "init" /\ pc[c] # "done" /\ pc'[c] = "done"
             /\ ret'[c].err # "ok") => ortSession' = ortSession]_vars

\* An init called on a session on which an init had just rejected has
\* resolved, and the session has its handle.
C10_Witness ==
  \E c \in Callers :
    /\ op[c] = "init" /\ seen[c] = "rejected"
    /\ pc[c] = "done" /\ ret[c] = Ok(NULL)
    /\ ortSession[self[c]] # undefined

\* The step in which init call c stores its artifact.
Inserts(c) == op[c] = "init" /\ ~setOk[c] /\ setOk'[c]

\* C11: under overlapping init calls an insert leaves the store within the
\* budget whenever the inserting call's validateCache met no store error
\* and nobody else wrote the store between that call's keys() and its
\* setItem; so the store is over the budget right after such an insert only
\* when the call decided on a stale view (which two overlapping calls for
\* different paths, each with an artifact within the budget, do reach).
C11_OnlyStaleViewsExceed ==
  [][\A c \in Callers :
       (Inserts(c) /\ ~caught[c] /\ ~stale[c]) => StoreBytes' <= cacheSize]_vars

\* Two overlapping init calls for B and C, each of 4 MB, have both left
\* validateCache without a store error and without evicting, and both have
\* inserted: the store holds A, B and C, 12 MB against a budget of 10 MB.
C11_Witness ==
  \E c, d \in Callers :
    /\ c # d /\ Inserted(c) /\ Inserted(d)
    /\ modelPath[c] = PathB /\ modelPath[d] = PathC
    /\ modelData[c].byteLength <= cacheSize /\ modelData[d].byteLength <= cacheSize
    /\ ~caught[c] /\ ~caught[d] /\ evicted[c] = <<>> /\ evicted[d] = <<>>
    /\ lookup[c] = "null" /\ lookup[d] = "null"
    /\ stale[c] # stale[d]
    /\ DOMAIN store = {PathA, PathB, PathC}
    /\ StoreBytes > cacheSize

\* Caller c is enumerating the store in validateCache.
Reading(c) == pc[c] \in {"keys", "sizes"}

\* C12: while validateCache enumerates the store (keys(), then a getItem
\* per key) it has removed nothing; when that enumeration fails (keys() or
\* a getItem rejects, or a getItem finds no value) the call goes through
\* its catch block without removing anything and without changing the
\* store, a direct call resolves, and inside init fetchData goes on to its
\* setItem with init still pending.
C12_ReadErrorsRemoveNothing ==
  /\ [](\A c \in Callers : Reading(c) => evicted[c] = <<>>)
  /\ [][\A c \in Callers :
          (Reading(c) /\ ~Reading(c)' /\ caught'[c]) =>
            /\ evicted'[c] = <<>>
            /\ store' = store
            /\ pc'[c] = IF op[c] = "init" THEN "setItem" ELSE "done"
            /\ ret'[c] = IF op[c] = "init" THEN NoRet ELSE Ok(NULL)]_vars

\* An init on a miss has inserted its artifact after a validateCache whose
\* enumeration failed: the store, with the new entry, is within the budget,
\* so the eviction loop would not have been entered.
C12_Witness ==
  \E c \in Callers :
    /\ Inserted(c) /\ lookup[c] = "null" /\ ~stale[c]
    /\ caught[c] /\ evicted[c] = <<>>
    /\ Cardinality(DOMAIN store) >= 2 /\ StoreBytes <= cacheSize
    /\ modelPath[c] \in DOMAIN store

\* Init call c has fetched and inflated the artifact of its path.
Obtained(c) ==
  /\ op[c] = "init" /\ fetches[c] >= 1
  /\ modelData[c] = Fetched(modelPath[c])

\* C13: an init that has fetched its artifact has no result other than
\* success or a failure of the session construction, whatever the store did
\* to its removeItem and setItem; a step that ends its eviction loop or its
\* setItem, successful or not, leaves the call pending with the fetched
\* bytes on its way to the session construction; and when the call has
\* resolved an init has built a handle on its session.
C13_StoreFailuresNeverFailInit ==
  /\ [](\A c \in Callers :
          Obtained(c) =>
            /\ pc[c] \in {"keys", "sizes", "evict", "setItem", "create", "done"}
            /\ ret[c].err \in {"pending", "ok", "CreateError"}
            /\ ret[c].err = "ok" => everInit[self[c]])
  /\ [][\A c \in Callers :
          (op[c] = "init" /\ pc[c] \in {"evict", "setItem"}
             /\ pc'[c] # pc[c]) =>
            /\ pc'[c] = IF pc[c] = "evict" THEN "setItem" ELSE "create"
            /\ ret'[c] = NoRet
            /\ modelData'[c] = Fetched(modelPath[c])]_vars

\* An init has resolved after a removeItem of its eviction loop failed (one
\* entry removed, then the catch block) and its setItem failed too.
C13_Witness ==
  \E c \in Callers :
    /\ Obtained(c) /\ pc[c] = "done" /\ ret[c] = Ok(NULL)
    /\ modelData[c].byteLength <= cacheSize
    /\ caught[c] /\ Len(evicted[c]) >= 1 /\ ~setOk[c]
    /\ ortSession[self[c]] = InferenceSession(Fetched(modelPath[c]))

\* The first n keys that keys() returned to caller c.
Prefix(c, n) == SubSeq(cacheKeys[c], 1, n)

\* C14: inside the eviction loop the keys a validateCache call has removed
\* are, in order, the first ones of the sequence its keys() call returned;
\* each removal takes the next key of that sequence, so no key is removed
\* while one before it in the sequence is kept by this call.
C14_EvictionFollowsEnumeration ==
  /\ [](\A c \in Callers :
          pc[c] = "evict" =>
            /\ Len(evicted[c]) < Len(cacheKeys[c])
            /\ evicted[c] = Prefix(c, Len(evicted[c])))
  /\ [][\A c \in Callers :
          (pc[c] = "evict" /\ evicted'[c] # evicted[c]) =>
            /\ evicted'[c] = Prefix(c, Len(evicted[c]) + 1)
            /\ store' = Remove(cacheKeys[c][Len(evicted[c]) + 1])]_vars

\* A validateCache call that enumerated at least three keys has removed the
\* first two and is about to go for the third.
C14_Witness ==
  \E c \in Callers :
    /\ pc[c] = "evict" /\ Len(cacheKeys[c]) >= 3
    /\ evicted[c] = Prefix(c, 2)
    /\ cacheKeys[c][3] \in DOMAIN store
    /\ cacheKeys[c][1] \notin DOMAIN store /\ cacheKeys[c][2] \notin DOMAIN store

\* Init call c found its path in the store.
Hit(c) == op[c] = "init" /\ lookup[c] = "data"

\* C15: an init whose getItem resolved a stored value takes exactly that
\* value as its bytes and goes straight to the session construction: it
\* issues no fetch, runs no validateCache, removes nothing and sets
\* nothing, none of its steps changes the store, and the handle it builds
\* is built from the stored value.
C15_HitChangesNothing ==
  /\ [](\A c \in Callers :
          Hit(c) =>
            /\ pc[c] \in {"create", "done"}
            /\ fetches[c] = 0 /\ evicted[c] = <<>> /\ ~setOk[c] /\ ~caught[c]
            /\ ret[c].err \in {"pending", "ok", "CreateError"})
  /\ [][\A c \in Callers :
          (Hit(c)' /\ pc'[c] # pc[c]) =>
            /\ store' = store
            /\ pc[c] = "getItem" => modelData'[c] = store[modelPath[c]]
            /\ pc[c] = "create" =>
                  /\ modelData'[c] = modelData[c]
                  /\ ret'[c].err = "ok" =>
                        ortSession'[self[c]] = InferenceSession(modelData[c])]_vars

\* An init served from a store that is over the budget has resolved: it
\* fetched nothing, evicted nothing, and the store still holds its entry.
C15_Witness ==
  \E c \in Callers :
    /\ Hit(c) /\ pc[c] = "done" /\ ret[c] = Ok(NULL)
    /\ fetches[c] = 0 /\ evicted[c] = <<>> /\ ~setOk[c]
    /\ modelPath[c] \in DOMAIN store /\ modelData[c] = store[modelPath[c]]
    /\ StoreBytes > cacheSize

\* Caller c is inside createSession.
Building(c) == factory[c] /\ pc[c] # "idle"

\* C16: the session a createSession call builds is worker-hosted exactly
\* when the call was made with proxy = true and the host has a document,
\* and local otherwise; the call is an init on that session; it hands the
\* session to its caller only at its return, after its init resolved, so
\* that the session has a handle, and when its init rejected its return
\* hands over nothing.  So every worker-hosted session the calling code
\* holds has a handle.
C16_FactoryModeAndReadiness ==
  /\ [](\A c \in Callers :
          Building(c) =>
            /\ op[c] = "init"
            /\ proxyArg[c] => hasDocument # "unread"
            /\ mode[self[c]] = IF proxyArg[c] /\ hasDocument = "yes"
                                THEN "proxied" ELSE "local"
            /\ ~Held(self[c])
            /\ ret[c].err = "ok" => ortSession[self[c]] # undefined)
  /\ [](\A s \in Sessions :
          (Held(s) /\ mode[s] = "proxied") =>
            (hasDocument = "yes" /\ ortSession[s] # undefined))
  /\ [][\A c \in Callers, s \in Sessions :
          (Building(c) /\ ~Building(c)' /\ s = self[c]) =>
            /\ pc[c] = "done"
            /\ IF ret[c].err = "ok"
               THEN /\ mode'[s] = mode[s]
                    /\ ortSession'[s] = ortSession[s]
                    /\ ortSession[s] # undefined
                    /\ Held(s)'
               ELSE mode'[s] = "none"]_vars

\* The calling code holds a worker-hosted session that createSession has
\* returned: it has a handle.
C16_Witness ==
  \E s \in Sessions :
    /\ Held(s) /\ mode[s] = "proxied" /\ hasDocument = "yes"
    /\ ortSession[s] # undefined /\ everInit[s]

\* C17: the session construction of an init call that resolves assigns the
\* handle built from that call's bytes to the session, whatever handle the
\* session had and whichever call was started first; and a run, inputNames
\* or outputNames call works with the handle the session has when the call
\* is made.  So the handle later calls use is that of the init whose
\* session construction resolved last.
C17_LastConstructionWins ==
  [][/\ \A c \in Callers :
          (op[c] = "init" /\ pc[c] = "create" /\ pc'[c] = "done"
             /\ ret'[c].err = "ok") =>
            ortSession'[self[c]] = InferenceSession(modelData[c])
     /\ \A c \in Callers :
          (pc[c] = "idle" /\ op'[c] \in UseOps) =>
            handle'[c] = ortSession[self'[c]]]_vars

\* Two init calls on one session, for different paths, have both resolved:
\* the one started first, which the other found in flight, resolved last,
\* and the session has its handle, not the other's.
C17_Witness ==
  \E c, d \in Callers :
    /\ op[c] = "init" /\ op[d] = "init" /\ self[c] = self[d]
    /\ pc[c] = "done" /\ pc[d] = "done"
    /\ ret[c] = Ok(NULL) /\ ret[d] = Ok(NULL)
    /\ seen[c] = "none" /\ seen[d] = "inflight"
    /\ modelPath[c] # modelPath[d]
    /\ ortSession[self[c]] = InferenceSession(modelData[c])
    /\ ortSession[self[c]] # InferenceSession(modelData[d])

\* Init call c has rejected with a failure of its fetch or of the inflate.
FetchFailed(c) ==
  /\ op[c] = "init" /\ pc[c] = "done"
  /\ ret[c].err \in {"NetworkError", "DecodeError"}

\* C18: no step an init call takes up to the end of its fetch and inflate
\* (the lookup, a fetchData that fails, a fetchData that succeeds) changes
\* the store; and an init that has rejected with a failure of the fetch or
\* of the inflate has run no validateCache, removed nothing, set nothing
\* and holds no bytes.
C18_FailedFetchLeavesStore ==
  /\ [](\A c \in Callers :
          FetchFailed(c) =>
            /\ fetches[c] >= 1
            /\ evicted[c] = <<>> /\ ~setOk[c] /\ ~caught[c]
            /\ modelData[c] = EmptyBuffer)
  /\ [][\A c \in Callers :
          (op[c] = "init" /\ pc[c] \in {"getItem", "fetchTry", "fetchCatch"}
             /\ pc'[c] # pc[c]) => store' = store]_vars

\* An init for a .gz path has rejected at the inflate while the store held
\* an entry, and the store does not hold its path.
C18_Witness ==
  \E c \in Callers :
    /\ FetchFailed(c) /\ ret[c].err = "DecodeError"
    /\ evicted[c] = <<>> /\ ~setOk[c]
    /\ DOMAIN store # {} /\ modelPath[c] \notin DOMAIN store

\* C19 as stated: when an init has rejected at the session construction for
\* bytes it fetched itself, the store does not hold those bytes under its
\* path.
C19_AsStated ==
  \A c \in Callers :
    (Obtained(c) /\ pc[c] = "done" /\ ret[c].err = "CreateError") =>
      ~(/\ modelPath[c] \in DOMAIN store
        /\ store[modelPath[c]] = modelData[c])

====
